---- MODULE Spec2Model ----
(***************************************************************************)
(* Job orchestration engine of paper_sum (backend): the in-memory job      *)
(* registry of PipelineService, the seven-node production pipeline, and    *)
(* the Redis sliding-window rate limiter of the API dependencies.          *)
(*                                                                         *)
(*   Spec    one job through the registry and the pipeline, with a clock   *)
(*   SpecStore  several jobs in the registry, in flight at the same time   *)
(*   SpecList   GET /jobs on stores of several sizes                       *)
(*   SpecCancel  cancel_job on records of every status                     *)
(*   SpecRL  the rate limiter, one request at a time                       *)
(*   SpecRLWorkers  the rate limiter, requests of several workers          *)
(*   SpecLive   one job with status queries and downloads, under fairness  *)
(*   SpecNovelty, SpecOutput  the text parsers of nodes 5 and 7            *)
(***************************************************************************)
EXTENDS Integers, Sequences, FiniteSets, TLC

(***************************************************************************)
(* Bounds of the model.                                                    *)
(***************************************************************************)
MaxJobs == 2        \* job ids that create_job can hand out
MaxTime == 1        \* last value of the wall clock (datetime.utcnow)
MaxFaults == 2      \* failures the environment may inject over all runs

JobIds == 1..MaxJobs

(***************************************************************************)
(* ProcessingStatus (schemas.py) and the messages the code writes.         *)
(***************************************************************************)
QUEUED == "queued"
INGESTING == "ingesting"
PARSING == "parsing"
RAG_PROCESSING == "rag_processing"
SUMMARIZING == "summarizing"
CONTEXTUALIZING == "contextualizing"
NOVELTY_ANALYSIS == "novelty_analysis"
HUMANIZING == "humanizing"
SYNTHESIZING == "synthesizing"
COMPLETED == "completed"
FAILED == "failed"

ProcessingStatus ==
    { QUEUED, INGESTING, PARSING, RAG_PROCESSING, SUMMARIZING, CONTEXTUALIZING,
      NOVELTY_ANALYSIS, HUMANIZING, SYNTHESIZING, COMPLETED, FAILED }

None == "None"
CancelMsg == "Job cancelled by user"
PipelineErrMsg == "pipeline error"
NoTime == -1

(***************************************************************************)
(* The graph of create_production_pipeline: seven nodes joined by          *)
(* unconditional edges START -> ingestion -> ... -> output -> END.         *)
(***************************************************************************)
StepNames ==
    << "ingestion", "parsing", "rag_processing", "summarizer_context",
       "novelty_analysis", "humanizing", "output_generation" >>

\* the status each node writes just before it logs its step complete
SuccessStatus ==
    << PARSING, RAG_PROCESSING, SUMMARIZING, NOVELTY_ANALYSIS, HUMANIZING,
       SYNTHESIZING, COMPLETED >>

\* the prefix of error_msg in each node's except branch
ErrorMsgs ==
    << "Ingestion failed", "Parsing failed", "RAG processing failed",
       "Summarization failed", "Novelty analysis failed",
       "Fun translation failed", "Output generation failed" >>

NumNodes == Len(StepNames)

\* nodes 2 and 3 call only blocking libraries (fitz, the splitter, Chroma):
\* they run from _log_step_start to return without yielding to the event
\* loop.  The others await an external call (httpx, the LLM chain).
Suspends(k) == k \notin {2, 3}

VARIABLES
    ids,                \* the job ids uuid4 hands out in this behaviour
    byRef,              \* the graph hands the nodes the caller's dict (TRUE) or a dict of its own (FALSE)
    jobs,               \* PipelineService.jobs: job id -> state dict
    order,              \* insertion order of the keys of jobs
    created,            \* the job ids in the order create_job returned them
    listed,             \* the last GET /jobs request and the job ids it returned
    run,                \* the state dict inside a pipeline run, when it is a dict of the graph's own
    pc,                 \* position of process_paper_async for each job id
    node,               \* index of the node the run is at
    processing_steps,   \* the list object state["processing_steps"] of each job
    clock,              \* datetime.utcnow()
    faults,             \* failures injected so far
    cancelled,          \* job ids for which cancel_job has returned True
    last                \* the call that led to this state: name, job id, result

jobVars == << ids, byRef, jobs, order, created, listed, run, pc, node, processing_steps, clock,
              faults, cancelled, last >>

VARIABLES
    settings,       \* the rate-limit settings loaded at start-up
    clients,        \* the client addresses that send requests
    budget,         \* the admission checks they make
    current_time,   \* int(time.time())
    zset,           \* Redis: client address -> the scores of the sorted set rate_limit:<ip>
    ttl,            \* Redis: client address -> the second at which the key expires
    redis_client,   \* the module-level redis_client is set
    inflight,       \* requests between int(time.time()) and pipe.execute()
    checks          \* every rate_limit_check made so far: who, when, how it ended

rlVars == << settings, clients, budget, current_time, zset, ttl, redis_client,
             inflight, checks >>

VARIABLES
    content,            \* the .content of the reply of the language model
    serious_summary,    \* state["serious_summary"]: its words
    novelty_score,      \* state["novelty_score"], a decimal num/den
    final_digest,       \* state["final_digest"]
    tweet_thread,       \* state["tweet_thread"]
    blog_post,          \* state["blog_post"]
    parsed              \* the node that has parsed content: 0 (none yet), 5 or 7

textVars == << content, serious_summary, novelty_score, final_digest,
               tweet_thread, blog_post, parsed >>


(***************************************************************************)
(* create_initial_state: the fields of the state dict the engine reads     *)
(* and writes.  pdf_path, paper_content and final_digest are kept as "is   *)
(* it set", that is, not None and not the empty string.                    *)
(***************************************************************************)
create_initial_state(now) ==
    [ status |-> QUEUED,
      created_at |-> now,
      updated_at |-> now,
      pdf_path |-> FALSE,
      paper_content |-> FALSE,
      final_digest |-> FALSE,
      current_step |-> None,
      error_message |-> None ]

\* ProcessingStep as _log_step_start builds it
NewStep(name, now) ==
    [ step_name |-> name,
      status |-> INGESTING,
      started_at |-> now,
      completed_at |-> NoTime,
      error_message |-> None ]

\* get_job_status that adds the analysis result once all stages have a step
SnapshotResultByStepCount(state, steps) ==
    [ found |-> TRUE,
      status |-> state.status,
      updated_at |-> state.updated_at,
      processing_steps |-> steps,
      current_step |-> state.current_step,
      error_message |-> state.error_message,
      has_result |-> Len(steps) = NumNodes ]

\* what get_job_status returns for a stored state
Snapshot(state, steps) ==
    [ found |-> TRUE,
      status |-> state.status,
      updated_at |-> state.updated_at,
      processing_steps |-> steps,
      current_step |-> state.current_step,
      error_message |-> state.error_message,
      has_result |-> state.status = COMPLETED ]

NotFound ==
    [ found |-> FALSE,
      status |-> None,
      updated_at |-> NoTime,
      processing_steps |-> << >>,
      current_step |-> None,
      error_message |-> None,
      has_result |-> FALSE ]

Call(name, j, ok) == [ op |-> name, job |-> j, ok |-> ok ]

\* the dict a node of job j works on.  The spec words the job state as
\* passed between the stages by reference: a graph that does so hands the
\* nodes the dict stored in self.jobs (byRef).  The StateGraph of langgraph
\* that create_production_pipeline compiles builds the dict of a node from
\* the fields of the dict ainvoke was given, so a node's assignment to a
\* field does not reach the record in self.jobs, while the list object
\* state["processing_steps"] is the same in both.  Every specification
\* below starts with the graph of langgraph (byRef = FALSE).
State(j) == IF byRef THEN jobs[j] ELSE run[j]

ReplaceLast(steps, step) == [ steps EXCEPT ![Len(steps)] = step ]

(***************************************************************************)
(* _log_step_start, _log_step_complete, _log_step_error                    *)
(***************************************************************************)
\* _log_step_start that starts the list over
LogStepStartResets(steps, name, now) == << NewStep(name, now) >>

LogStepStart(steps, name, now) == Append(steps, NewStep(name, now))

\* _log_step_complete that stamps the step and leaves its status
LogStepCompleteKeepsStatus(steps, name, now) ==
    IF Len(steps) > 0 /\ steps[Len(steps)].step_name = name
    THEN ReplaceLast(steps, [ steps[Len(steps)] EXCEPT !.completed_at = now ])
    ELSE steps

LogStepComplete(steps, name, now) ==
    IF Len(steps) > 0 /\ steps[Len(steps)].step_name = name
    THEN ReplaceLast(steps, [ steps[Len(steps)] EXCEPT
                                !.completed_at = now, !.status = COMPLETED ])
    ELSE steps

LogStepError(steps, name, error, now) ==
    IF Len(steps) > 0 /\ steps[Len(steps)].step_name = name
    THEN ReplaceLast(steps, [ steps[Len(steps)] EXCEPT
                                !.status = FAILED, !.error_message = error,
                                !.completed_at = now ])
    ELSE steps

(***************************************************************************)
(* The body of node k after _log_step_start, on state s.                   *)
(* outcome: "ok", "fail" (the external call raises) or "empty" (parsing    *)
(* extracts no text; the reply that output generation parses is the empty  *)
(* string, so that final_digest is the empty string).  Nodes 2 and 3 raise *)
(* ValueError when their input is missing.                                 *)
(***************************************************************************)
\* only parsing checks its input
InputMissingParsingOnly(k, s) == k = 2 /\ ~s.pdf_path

InputMissing(k, s) ==
    \/ k = 2 /\ ~s.pdf_path
    \/ k = 3 /\ ~s.paper_content

NodeFails(k, s, outcome) == outcome = "fail" \/ InputMissing(k, s)

\* a node that leaves the status of a state that is already Failed
NodeStateStaysFailed(k, s, outcome) ==
    IF NodeFails(k, s, outcome)
    THEN [ s EXCEPT !.error_message = ErrorMsgs[k], !.status = FAILED ]
    ELSE [ s EXCEPT !.status = IF @ = FAILED THEN FAILED ELSE SuccessStatus[k],
                    !.pdf_path = IF k = 1 THEN TRUE ELSE @,
                    !.paper_content = IF k = 2 THEN outcome = "ok" ELSE @,
                    !.final_digest = IF k = 7 THEN outcome = "ok" ELSE @ ]

NodeState(k, s, outcome) ==
    IF NodeFails(k, s, outcome)
    THEN [ s EXCEPT !.error_message = ErrorMsgs[k], !.status = FAILED ]
    ELSE [ s EXCEPT !.status = SuccessStatus[k],
                    !.pdf_path = IF k = 1 THEN TRUE ELSE @,
                    !.paper_content = IF k = 2 THEN outcome = "ok" ELSE @,
                    !.final_digest = IF k = 7 THEN outcome = "ok" ELSE @ ]

NodeSteps(k, s, outcome, steps, now) ==
    IF NodeFails(k, s, outcome)
    THEN LogStepError(steps, StepNames[k], ErrorMsgs[k], now)
    ELSE LogStepComplete(steps, StepNames[k], now)

Outcomes(k) == IF k \in {2, 7} THEN {"ok", "empty", "fail"} ELSE {"ok", "fail"}

\* an outcome the environment chooses costs one fault unless it is "ok"
\* or the node fails anyway
Cost(k, s, outcome) == IF outcome = "ok" \/ InputMissing(k, s) THEN 0 ELSE 1

NoRequest == [ status |-> None, limit |-> 0, offset |-> 0, ids |-> << >> ]

\* the service after PipelineService.__init__, with I the job ids that
\* uuid4 will hand out and used the part of the failure budget that is spent
JobStart(I, used) ==
    /\ ids = I
    /\ byRef = FALSE
    /\ jobs = << >>
    /\ order = << >>
    /\ created = << >>
    /\ listed = NoRequest
    /\ run = << >>
    /\ pc = [ j \in JobIds |-> "absent" ]
    /\ node = [ j \in JobIds |-> 0 ]
    /\ processing_steps = [ j \in JobIds |-> << >> ]
    /\ clock = 0
    /\ faults = used
    /\ cancelled = {}
    /\ last = Call("start", 0, TRUE)

JobInit == JobStart({1}, 0)

\* the keys of a dict in iteration order after d[j] = v: a key that is
\* there keeps its place, a new key goes to the end
DictOrder(keys, j) ==
    IF \E i \in DOMAIN keys : keys[i] = j THEN keys ELSE Append(keys, j)

\* self.jobs[job_id] = state keeping only the new entry
StoreJobAlone(store, j, state) == j :> state

\* self.jobs[job_id] = state
StoreJob(store, j, state) ==
    [ k \in DOMAIN store \cup {j} |-> IF k = j THEN state ELSE store[k] ]

\* the response_dict of create_job
CreateResponse(j, state) ==
    [ job_id |-> j,
      status |-> state.status,
      created_at |-> state.created_at,
      updated_at |-> state.updated_at,
      processing_steps |-> << >>,
      current_step |-> None,
      error_message |-> None ]

\* time passes
Tick ==
    /\ clock < MaxTime
    /\ clock' = clock + 1
    /\ last' = Call("tick", 0, TRUE)
    /\ UNCHANGED << rlVars, textVars, ids, byRef, jobs, order, created, listed, run, pc, node,
                    processing_steps, faults, cancelled >>

\* PipelineService.create_job followed by background_tasks.add_task
CreateJob(j) ==
    /\ j \in ids
    /\ j \notin DOMAIN jobs
    /\ jobs' = StoreJob(jobs, j, create_initial_state(clock))
    /\ order' = DictOrder(order, j)
    /\ created' = Append(created, j)
    /\ pc' = [ pc EXCEPT ![j] = "new" ]
    /\ last' = Call("create_job", j, TRUE)
    /\ UNCHANGED << rlVars, textVars, ids, byRef, listed, run, node, processing_steps, clock,
                    faults, cancelled >>

\* a write that goes to the state dict of every job
WriteStateShared(j, s) ==
    /\ jobs' = IF byRef THEN [ k \in DOMAIN jobs |-> s ] ELSE jobs
    /\ run' = IF byRef THEN run ELSE [ k \in DOMAIN run |-> s ]

\* POST /papers/process and POST /papers/batch: create_job stores the job,
\* then the read of job_response.job_id raises AttributeError (create_job
\* returns a dict); the endpoint answers 500 and no background task is
\* added, so the job stays in the store as it was created (a batch stops
\* at its first paper)
ProcessPaper(j) ==
    /\ j \in ids
    /\ j \notin DOMAIN jobs
    /\ jobs' = StoreJob(jobs, j, create_initial_state(clock))
    /\ order' = DictOrder(order, j)
    /\ created' = Append(created, j)
    /\ pc' = [ pc EXCEPT ![j] = "stored" ]
    /\ last' = Call("process_paper", j, FALSE)
    /\ UNCHANGED << rlVars, textVars, ids, byRef, listed, run, node, processing_steps, clock,
                    faults, cancelled >>

\* a node write that also reaches the record in self.jobs
WriteStateStored(j, s) ==
    /\ jobs' = [ jobs EXCEPT ![j] = s ]
    /\ run' = [ run EXCEPT ![j] = s ]

\* the write of a node of job j to its state dict
WriteState(j, s) ==
    /\ jobs' = IF byRef THEN [ jobs EXCEPT ![j] = s ] ELSE jobs
    /\ run' = IF byRef THEN run ELSE [ run EXCEPT ![j] = s ]

\* process_paper_async up to pipeline.ainvoke(state)
Schedule(j) ==
    /\ pc[j] = "new"
    /\ pc' = [ pc EXCEPT ![j] = "ready" ]
    /\ node' = [ node EXCEPT ![j] = 1 ]
    /\ run' = IF byRef THEN run ELSE run @@ (j :> jobs[j])
    /\ last' = Call("ainvoke", j, TRUE)
    /\ UNCHANGED << rlVars, textVars, ids, byRef, jobs, order, created, listed, processing_steps, clock,
                    faults, cancelled >>

\* process_paper_async for a job id that is not in self.jobs: it logs the
\* error and returns
ScheduleUnknown(j) ==
    /\ j \notin DOMAIN jobs
    /\ last' = Call("process_paper_async", j, FALSE)
    /\ UNCHANGED << rlVars, textVars, ids, byRef, jobs, order, created, listed, run, pc,
                    node, processing_steps, clock, faults, cancelled >>

\* an edge that leaves out the node after k
NextNodeSkips(k) == k + 2

\* the node that follows node k along the edges of the graph (8 is END)
NextNode(k) == k + 1

\* the position after node k has returned
Advance(j, k) ==
    /\ pc' = [ pc EXCEPT ![j] = IF NextNode(k) > NumNodes THEN "returned" ELSE "ready" ]
    /\ node' = [ node EXCEPT ![j] = NextNode(k) ]

\* node k of job j runs from after _log_step_start to its return
FinishNode(j, k, s, steps, outcome) ==
    /\ faults + Cost(k, s, outcome) <= MaxFaults
    /\ faults' = faults + Cost(k, s, outcome)
    /\ WriteState(j, NodeState(k, s, outcome))
    /\ processing_steps' =
           [ processing_steps EXCEPT ![j] = NodeSteps(k, s, outcome, steps, clock) ]
    /\ Advance(j, k)
    /\ last' = Call("node", j, ~NodeFails(k, s, outcome))

\* a node begins: _log_step_start, then either the await of its external
\* call or, for a node that never yields, the rest of its body
StageStart(j) ==
    /\ pc[j] = "ready"
    /\ LET k == node[j]
           s == [ State(j) EXCEPT !.current_step = StepNames[k] ]
           started == LogStepStart(processing_steps[j], StepNames[k], clock)
       IN  IF Suspends(k)
           THEN /\ WriteState(j, s)
                /\ processing_steps' = [ processing_steps EXCEPT ![j] = started ]
                /\ pc' = [ pc EXCEPT ![j] = "running" ]
                /\ last' = Call("node_start", j, TRUE)
                /\ UNCHANGED << node, faults >>
           ELSE \E outcome \in Outcomes(k) : FinishNode(j, k, s, started, outcome)
    /\ UNCHANGED << rlVars, textVars, ids, byRef, order, created, listed, clock, cancelled >>

\* node_1_ingestion resumes after "await client.get": it saves the file,
\* sets state["pdf_path"] and awaits the exit of the AsyncClient
StageResume(j) ==
    /\ pc[j] = "running"
    /\ node[j] = 1
    /\ WriteState(j, [ State(j) EXCEPT !.pdf_path = TRUE ])
    /\ pc' = [ pc EXCEPT ![j] = "closing" ]
    /\ last' = Call("node_resume", j, TRUE)
    /\ UNCHANGED << rlVars, textVars, ids, byRef, order, created, listed, node,
                    processing_steps, clock, faults, cancelled >>

\* the last await of a suspended node returns or raises: the external call
\* of the node, or for node_1_ingestion the exit of the AsyncClient (its
\* external call can only raise here, a return is StageResume)
StageFinish(j) ==
    /\ pc[j] \in {"running", "closing"}
    /\ \E outcome \in Outcomes(node[j]) :
           /\ (node[j] = 1 /\ pc[j] = "running") => outcome = "fail"
           /\ FinishNode(j, node[j], State(j), processing_steps[j], outcome)
    /\ UNCHANGED << rlVars, textVars, ids, byRef, order, created, listed, clock, cancelled >>

\* ainvoke has returned: self.jobs[job_id] = result_state
WriteBack(j) ==
    /\ pc[j] = "returned"
    /\ jobs' = StoreJob(jobs, j, State(j))
    /\ order' = DictOrder(order, j)
    /\ pc' = [ pc EXCEPT ![j] = "done" ]
    /\ last' = Call("write_back", j, TRUE)
    /\ UNCHANGED << rlVars, textVars, ids, byRef, created, listed, run, node, processing_steps,
                    clock, faults, cancelled >>

\* pipeline.ainvoke raises between two nodes
PipelineRaises(j) ==
    /\ pc[j] = "ready"
    /\ faults < MaxFaults
    /\ faults' = faults + 1
    /\ pc' = [ pc EXCEPT ![j] = "raised" ]
    /\ last' = Call("ainvoke_raises", j, FALSE)
    /\ UNCHANGED << rlVars, textVars, ids, byRef, jobs, order, created, listed, run, node,
                    processing_steps, clock, cancelled >>

\* an except branch that records the message and leaves the status
ExceptBranchKeepsStatus(state, now) ==
    [ state EXCEPT !.error_message = PipelineErrMsg, !.updated_at = now ]

\* "Update job with error": the three assignments of the except branch
ExceptBranch(state, now) ==
    [ state EXCEPT !.status = FAILED,
                   !.error_message = PipelineErrMsg,
                   !.updated_at = now ]

\* the except branch of process_paper_async, after the analytics call
RecordFailure(j) ==
    /\ pc[j] = "raised"
    /\ jobs' = [ jobs EXCEPT ![j] = ExceptBranch(@, clock) ]
    /\ pc' = [ pc EXCEPT ![j] = "done" ]
    /\ last' = Call("except", j, FALSE)
    /\ UNCHANGED << rlVars, textVars, ids, byRef, order, created, listed, run, node, processing_steps,
                    clock, faults, cancelled >>

\* cancel_job with COMPLETED let into its list of statuses
CancellableAlsoCompleted ==
    { QUEUED, INGESTING, PARSING, RAG_PROCESSING, SUMMARIZING, HUMANIZING,
      COMPLETED }

\* the statuses cancel_job accepts
Cancellable ==
    { QUEUED, INGESTING, PARSING, RAG_PROCESSING, SUMMARIZING, HUMANIZING }

\* cancel_job that takes a missing job for one it can cancel
cancel_job_unchecked(j) ==
    j \in DOMAIN jobs => jobs[j].status \in Cancellable

\* what cancel_job returns for job id j
cancel_job(j) == j \in DOMAIN jobs /\ jobs[j].status \in Cancellable

\* PipelineService.cancel_job
CancelJob(j) ==
    /\ IF cancel_job(j)
       THEN /\ jobs' = [ jobs EXCEPT ![j] = [ @ EXCEPT !.status = FAILED,
                                                      !.error_message = CancelMsg,
                                                      !.updated_at = clock ] ]
            /\ cancelled' = cancelled \cup {j}
       ELSE UNCHANGED << jobs, cancelled >>
    /\ last' = Call("cancel_job", j, cancel_job(j))
    /\ UNCHANGED << rlVars, textVars, ids, byRef, order, created, listed, run, pc, node, processing_steps,
                    clock, faults >>

\* what get_job_status returns for job id j
get_job_status(j) ==
    IF j \in DOMAIN jobs THEN Snapshot(jobs[j], processing_steps[j]) ELSE NotFound

\* GET /jobs/{job_id}
GetJobStatus(j) ==
    /\ last' = Call("get_job_status", j, get_job_status(j).found)
    /\ UNCHANGED << rlVars, textVars, ids, byRef, jobs, order, created, listed, run, pc,
                    node, processing_steps, clock, faults, cancelled >>

(***************************************************************************)
(* get_job_output and GET /jobs/{job_id}/download/{format}.  A rendering   *)
(* is kept as a mark of its format; the rendering of txt is the digest     *)
(* itself, which is the empty string when the reply that output generation *)
(* parsed was empty.                                                       *)
(***************************************************************************)
Formats == { "json", "markdown", "txt", "html" }

JsonDump == "<json>"

MarkdownDocument == "<markdown>"

DigestText == "<final_digest>"

EmptyString == ""

HTTP404 == "404"

\* what get_job_output returns for job id j and a format
get_job_output(j, format) ==
    IF j \notin DOMAIN jobs THEN None
    ELSE IF jobs[j].status # COMPLETED THEN None
    ELSE IF format = "json" THEN JsonDump
    ELSE IF format = "markdown" THEN MarkdownDocument
    ELSE IF format = "txt"
         THEN IF jobs[j].final_digest THEN DigestText ELSE EmptyString
    ELSE None

\* not file_content
Falsy(file_content) == file_content \in { None, EmptyString }

\* what the download endpoint answers
download_result(j, format) ==
    LET file_content == get_job_output(j, format)
    IN  IF Falsy(file_content) THEN HTTP404 ELSE file_content

\* GET /jobs/{job_id}/download/{format}
DownloadResult(j, format) ==
    /\ last' = Call("download_result", j, download_result(j, format) # HTTP404)
    /\ UNCHANGED << rlVars, textVars, ids, byRef, jobs, order, created, listed, run, pc,
                    node, processing_steps, clock, faults, cancelled >>

(***************************************************************************)
(* GET /jobs: the endpoint clamps limit, PipelineService.list_jobs slices  *)
(* the items of self.jobs and then leaves out the jobs of another status.  *)
(***************************************************************************)
MaxPageSize == 100

Min(a, b) == IF a < b THEN a ELSE b

Max(a, b) == IF a > b THEN a ELSE b

\* a slice bound as Python places it in a list of n items
SliceIndex(i, n) == IF i < 0 THEN Max(n + i, 0) ELSE Min(i, n)

\* seq[start:stop]
Slice(seq, start, stop) ==
    LET from == SliceIndex(start, Len(seq))
        to == SliceIndex(stop, Len(seq))
    IN  IF from >= to THEN << >> ELSE SubSeq(seq, from + 1, to)

\* the endpoint without its clamp
ClampLimitMissing(limit) == limit

\* if limit > 100: limit = 100
ClampLimit(limit) == IF limit > MaxPageSize THEN MaxPageSize ELSE limit

\* the job ids whose snapshots list_jobs returns, in the order of the list
list_jobs(status_filter, limit, offset) ==
    SelectSeq(Slice(order, offset, offset + limit),
              LAMBDA j : /\ status_filter \in {None, jobs[j].status}
                         /\ get_job_status(j).found)

\* what GET /jobs?status=&limit=&offset= returns
list_jobs_endpoint(status, limit, offset) ==
    list_jobs(status, ClampLimit(limit), offset)

\* the requests explored
Limits == { -1, 0, 2, 50, 100, 101, 200 }

Offsets == { -1, 0, 1, 100 }

Filters == { None, QUEUED, FAILED }

ListJobs(status, limit, offset) ==
    /\ listed' = [ status |-> status, limit |-> limit, offset |-> offset,
                   ids |-> list_jobs_endpoint(status, limit, offset) ]
    /\ last' = Call("list_jobs", 0, TRUE)
    /\ UNCHANGED << rlVars, textVars, ids, byRef, jobs, order, created, run, pc, node,
                    processing_steps, clock, faults, cancelled >>

JobNext ==
    \/ Tick
    \/ \E j \in JobIds : CreateJob(j)
    \/ \E j \in JobIds : ProcessPaper(j)
    \/ \E j \in JobIds : Schedule(j)
    \/ \E j \in JobIds : StageStart(j)
    \/ \E j \in JobIds : StageResume(j)
    \/ \E j \in JobIds : StageFinish(j)
    \/ \E j \in JobIds : WriteBack(j)
    \/ \E j \in JobIds : PipelineRaises(j)
    \/ \E j \in JobIds : RecordFailure(j)
    \/ \E j \in JobIds : CancelJob(j)

\* one job and the requests about it and about a job id that is not in the
\* store, status queries and downloads included, the clock standing still
LiveNext ==
    \/ \E j \in JobIds : CreateJob(j)
    \/ \E j \in JobIds : ProcessPaper(j)
    \/ \E j \in JobIds : Schedule(j)
    \/ \E j \in JobIds : StageStart(j)
    \/ \E j \in JobIds : StageResume(j)
    \/ \E j \in JobIds : StageFinish(j)
    \/ \E j \in JobIds : WriteBack(j)
    \/ \E j \in JobIds : PipelineRaises(j)
    \/ \E j \in JobIds : RecordFailure(j)
    \/ \E j \in JobIds : CancelJob(j)
    \/ \E j \in JobIds : GetJobStatus(j)
    \/ \E j \in JobIds : ScheduleUnknown(j)
    \/ \E j \in JobIds, format \in Formats : DownloadResult(j, format)

\* uuid4 hands out the ids in their order (the ids are interchangeable, so
\* no store is left out)
NextId(j) == \A k \in ids : k < j => k \in DOMAIN jobs

CreateNextJob(j) == NextId(j) /\ CreateJob(j)

ProcessNextPaper(j) == NextId(j) /\ ProcessPaper(j)

\* several jobs whose background tasks run at the same time on the event
\* loop, with create and cancel calls in between, every stage succeeding
\* and the clock standing still.  The calls that leave every field of the
\* service as it is are left to Spec: a status query (what it would return
\* is get_job_status) and a cancel call that cancel_job refuses
StoreNext ==
    \/ \E j \in JobIds : CreateNextJob(j)
    \/ \E j \in JobIds : ProcessNextPaper(j)
    \/ \E j \in JobIds : Schedule(j)
    \/ \E j \in JobIds : StageStart(j)
    \/ \E j \in JobIds : StageResume(j)
    \/ \E j \in JobIds : StageFinish(j)
    \/ \E j \in JobIds : WriteBack(j)
    \/ \E j \in JobIds : cancel_job(j) /\ CancelJob(j)

\* DELETE /jobs/{job_id} and GET /jobs/{job_id} called on their own
CancelNext ==
    \/ \E j \in JobIds : CancelJob(j)
    \/ \E j \in JobIds : GetJobStatus(j)

\* the sizes of the stores that GET /jobs is tried on
StoreSizes == { 0, 3, 102 }

\* a store of n jobs that create_job has returned and no run has begun
StoreOf(n) ==
    /\ ids = {}
    /\ byRef = FALSE
    /\ jobs = [ j \in 1..n |-> create_initial_state(0) ]
    /\ order = [ j \in 1..n |-> j ]
    /\ created = [ j \in 1..n |-> j ]
    /\ listed = NoRequest
    /\ run = << >>
    /\ pc = [ j \in JobIds \cup 1..n |-> IF j <= n THEN "new" ELSE "absent" ]
    /\ node = [ j \in JobIds \cup 1..n |-> 0 ]
    /\ processing_steps = [ j \in JobIds \cup 1..n |-> << >> ]
    /\ clock = 0
    /\ faults = 0
    /\ cancelled = {}
    /\ last = Call("start", 0, TRUE)

\* requests to GET /jobs and DELETE /jobs/{job_id} on such a store
ListNext ==
    \/ \E status \in Filters, limit \in Limits, offset \in Offsets :
           ListJobs(status, limit, offset)
    \/ \E j \in JobIds : CancelJob(j)

(***************************************************************************)
(* The rate limiter: rate_limit_check and get_redis_client                 *)
(* (api/dependencies.py) over a Redis sorted set per client address.       *)
(***************************************************************************)
MaxSlack == 1       \* seconds the clock runs past the first window
MaxChecks == 5      \* admission checks made over a behaviour
NumClients == 2     \* client addresses
MaxOutages == 1     \* admission checks made while the Redis server is down

Clients == 1..NumClients

\* the deployments explored: settings.rate_limit_requests and
\* settings.rate_limit_window, the client addresses that send requests and
\* the number of requests they send
Deployments ==
    { [ requests |-> 3, window |-> 10, clients |-> {1}, checks |-> MaxChecks ],
      [ requests |-> 2, window |-> 3, clients |-> Clients,
        checks |-> MaxChecks - 2 ] }

\* ZREMRANGEBYSCORE key 0 (current_time - window): scores in [0, max] go
ZRemRangeByScore(set, lo, hi) == { t \in set : ~(lo <= t /\ t <= hi) }

\* ZADD key {str(current_time): current_time}: the member is the second
ZAdd(set, t) == set \cup {t}

\* requests that can be inside rate_limit_check at the same time
MaxInflight == 2

Slots == 1..MaxInflight

Idle == [ ip |-> 0, time |-> NoTime, arrived |-> 0 ]

\* the four commands of the pipeline, as the server applies them in one
\* MULTI/EXEC for a request of client ip that read the clock at second now
Trimmed(ip, now) == ZRemRangeByScore(zset[ip], 0, now - settings.window)

request_count(ip, now) == Cardinality(Trimmed(ip, now))

AfterPipeline(ip, now) == ZAdd(Trimmed(ip, now), now)

\* the test written with > instead of >=
OverQuotaStrict(count) == count > settings.requests

\* the test that raises HTTPException(429)
OverQuota(count) == count >= settings.requests

\* get_redis_client returns a client: the cached one, or a new one whose
\* ping succeeded.  (A client whose ping failed stays in the global.)
get_redis_client(up) == redis_client \/ up

\* what the try block of rate_limit_check raises when the server is up or not
Raised(ip, now, up) ==
    IF ~up THEN "ConnectionError"
    ELSE IF OverQuota(request_count(ip, now)) THEN "HTTPException"
    ELSE "none"

\* the except clauses without "except HTTPException: raise"
ExceptClausesCatchAll(raised) == "admitted"

\* the except clauses: HTTPException is re-raised, anything else is logged
ExceptClauses(raised) == IF raised = "HTTPException" THEN "rejected" ELSE "admitted"

\* the outcome of rate_limit_check for the caller: "admitted" (it returns),
\* "rejected" (HTTPException 429) or "error" (another exception escapes)
rate_limit_check(ip, now, up) ==
    IF ~get_redis_client(up) THEN "admitted" ELSE ExceptClauses(Raised(ip, now, up))

\* the sorted sets after rate_limit_check
StoreAfter(ip, now, up) ==
    IF up THEN [ zset EXCEPT ![ip] = AfterPipeline(ip, now) ] ELSE zset

\* EXPIRE key window, counted from the server's clock
TtlAfter(ip, up) ==
    IF up THEN [ ttl EXCEPT ![ip] = current_time + settings.window ] ELSE ttl

\* the record of one call: the sorted set of ip before and after it, and
\* the number of calls that had ended when this one read the clock
Check(ip, now, up, arrived) ==
    [ ip |-> ip, time |-> now, up |-> up, arrived |-> arrived,
      before |-> zset[ip], after |-> StoreAfter(ip, now, up)[ip],
      outcome |-> rate_limit_check(ip, now, up) ]

\* the rate limiter of one of the deployments D before its first request
RLStart(D) ==
    /\ \E d \in D :
        /\ settings = [ requests |-> d.requests, window |-> d.window ]
        /\ clients = d.clients
        /\ budget = d.checks
    /\ current_time = 0
    /\ zset = [ ip \in Clients |-> {} ]
    /\ ttl = [ ip \in Clients |-> NoTime ]
    /\ redis_client = FALSE
    /\ inflight = [ n \in Slots |-> Idle ]
    /\ checks = << >>

RLInit == RLStart(Deployments)

\* a second passes
RLTick ==
    /\ current_time < settings.window + MaxSlack
    /\ current_time' = current_time + 1
    /\ UNCHANGED << jobVars, textVars, settings, clients, budget, zset, ttl, redis_client,
                    inflight, checks >>

\* EXPIRE key window: the key goes one window after the last pipeline
KeyExpires(ip) ==
    /\ ttl[ip] # NoTime
    /\ ttl[ip] <= current_time
    /\ zset' = [ zset EXCEPT ![ip] = {} ]
    /\ ttl' = [ ttl EXCEPT ![ip] = NoTime ]
    /\ UNCHANGED << jobVars, textVars, settings, clients, budget, current_time,
                    redis_client, inflight, checks >>

\* Depends(get_redis_client) of an endpoint, resolved before
\* Depends(rate_limit_check): redis.from_url assigns the global, whatever
\* the ping answers
GetRedisClient ==
    /\ redis_client' = TRUE
    /\ UNCHANGED << jobVars, textVars, settings, clients, budget, current_time, zset,
                    ttl, inflight, checks >>

\* a request of client ip passes through rate_limit_check while the Redis
\* server answers (up) or does not
RateLimitCheck(ip, up) ==
    /\ ip \in clients
    /\ Len(checks) < budget
    /\ up \/ Cardinality({ i \in DOMAIN checks : ~checks[i].up }) < MaxOutages
    /\ redis_client' = TRUE
    /\ zset' = StoreAfter(ip, current_time, up)
    /\ ttl' = TtlAfter(ip, up)
    /\ checks' = Append(checks, Check(ip, current_time, up, Len(checks)))
    /\ UNCHANGED << jobVars, textVars, settings, clients, budget, current_time, inflight >>

RLNext ==
    \/ RLTick
    \/ GetRedisClient
    \/ \E ip \in Clients : KeyExpires(ip)
    \/ \E ip \in Clients, up \in BOOLEAN : RateLimitCheck(ip, up)

(***************************************************************************)
(* rate_limit_check in several workers at once.  A request reads the       *)
(* clock, queues the four commands and sends them; the server runs the     *)
(* MULTI/EXEC blocks of different requests one after the other, in any     *)
(* order.                                                                  *)
(***************************************************************************)
\* the deployments explored with several workers
WorkerDeployments ==
    { [ requests |-> 2, window |-> 3, clients |-> {1}, checks |-> MaxChecks - 1 ] }

Busy == { n \in Slots : inflight[n] # Idle }

\* rate_limit_check in a worker up to pipe.execute(): get_redis_client
\* sets the global; without a client (no cached one and the ping fails)
\* the call returns at once, else current_time = int(time.time())
RLArrive(n, ip, up) ==
    /\ ip \in clients
    /\ inflight[n] = Idle
    /\ Len(checks) + Cardinality(Busy) < budget
    /\ redis_client' = TRUE
    /\ IF get_redis_client(up)
       THEN /\ inflight' = [ inflight EXCEPT ![n] =
                   [ ip |-> ip, time |-> current_time, arrived |-> Len(checks) ] ]
            /\ UNCHANGED checks
       ELSE /\ Cardinality({ i \in DOMAIN checks : ~checks[i].up }) < MaxOutages
            /\ checks' = Append(checks, Check(ip, current_time, up, Len(checks)))
            /\ UNCHANGED inflight
    /\ UNCHANGED << jobVars, textVars, settings, clients, budget, current_time, zset, ttl >>

\* pipe.execute() of the request in slot n and the rest of rate_limit_check
RLExecute(n, up) ==
    /\ inflight[n] # Idle
    /\ up \/ Cardinality({ i \in DOMAIN checks : ~checks[i].up }) < MaxOutages
    /\ LET r == inflight[n]
       IN  /\ zset' = StoreAfter(r.ip, r.time, up)
           /\ ttl' = TtlAfter(r.ip, up)
           /\ checks' = Append(checks, Check(r.ip, r.time, up, r.arrived))
    /\ redis_client' = TRUE
    /\ inflight' = [ inflight EXCEPT ![n] = Idle ]
    /\ UNCHANGED << jobVars, textVars, settings, clients, budget, current_time >>

RLNextWorkers ==
    \/ RLTick
    \/ GetRedisClient
    \/ \E ip \in Clients : KeyExpires(ip)
    \/ \E n \in Slots, ip \in Clients, up \in BOOLEAN : RLArrive(n, ip, up)
    \/ \E n \in Slots, up \in BOOLEAN : RLExecute(n, up)

(***************************************************************************)
(* The text parsers of the pipeline: the score node_5_novelty reads from   *)
(* the reply of the language model and the three sections node_7_output    *)
(* cuts out of it.  A text is a sequence of tokens, each token standing    *)
(* for the characters it spells; ThreadMark stands for the one character   *)
(* U+1F9F5 (spool of thread) of the tweet marker.  The literals the code   *)
(* searches for occur in the texts only as the tokens below.               *)
(***************************************************************************)
MaxLen == 4         \* tokens in a reply to the novelty prompt
MaxLines == 3       \* lines in a reply to the synthesis prompt

ThreadMark == "<thread>"
ScoreLabel == "Overall Novelty Score:"
BlogPostStructure == "BLOG POST STRUCTURE"
TwitterThread == "TWITTER THREAD"
FriendsTake == "FRIEND'S TAKE - COFFEE CHAT CONVERSATION"
Professor == "**Professor:**"
Friend == "**Friend:**"

Whitespace == { " ", "\n" }

Digits == << "0", "1", "2", "3", "4", "5", "6", "7", "8", "9" >>

DigitSet == { Digits[i] : i \in DOMAIN Digits }

DigitValue(c) == (CHOOSE i \in DOMAIN Digits : Digits[i] = c) - 1

\* pat occurs in text at index i (from 1)
MatchAt(text, pat, i) ==
    /\ i >= 1
    /\ i + Len(pat) - 1 <= Len(text)
    /\ \A k \in 1..Len(pat) : text[i + k - 1] = pat[k]

\* pat in text
Contains(text, pat) == \E i \in 1..(Len(text) + 1) : MatchAt(text, pat, i)

\* text.find(pat): the index from 0 of the first occurrence, -1 without one
Find(text, pat) ==
    IF Contains(text, pat)
    THEN (CHOOSE i \in 1..(Len(text) + 1) :
              /\ MatchAt(text, pat, i)
              /\ \A k \in 1..(i - 1) : ~MatchAt(text, pat, k)) - 1
    ELSE -1

\* text[:n] and text[n:] for 0 <= n <= len(text)
Before(text, n) == SubSeq(text, 1, n)

From(text, n) == SubSeq(text, n + 1, Len(text))

\* text.startswith(pat)
StartsWith(text, pat) == MatchAt(text, pat, 1)

\* text.strip()
Strip(text) ==
    LET solid == { i \in DOMAIN text : text[i] \notin Whitespace }
    IN  IF solid = {} THEN << >>
        ELSE SubSeq(text,
                    CHOOSE i \in solid : \A k \in solid : i <= k,
                    CHOOSE i \in solid : \A k \in solid : i >= k)

\* text.replace(pat, '') for a pat that is not empty
RECURSIVE Remove(_, _)
Remove(text, pat) ==
    IF text = << >> THEN << >>
    ELSE IF StartsWith(text, pat) THEN Remove(From(text, Len(pat)), pat)
    ELSE << Head(text) >> \o Remove(Tail(text), pat)

\* text.split('\n')
RECURSIVE Split(_)
Split(text) ==
    IF ~Contains(text, << "\n" >>) THEN << text >>
    ELSE LET i == Find(text, << "\n" >>)
         IN  << Before(text, i) >> \o Split(From(text, i + 1))

\* '\n'.join(lines)
RECURSIVE Join(_)
Join(lines) ==
    IF lines = << >> THEN << >>
    ELSE IF Len(lines) = 1 THEN lines[1]
    ELSE lines[1] \o << "\n" >> \o Join(Tail(lines))

\* f'{i}' for a natural number i
RECURSIVE Str(_)
Str(i) == IF i < 10 THEN << Digits[i + 1] >>
          ELSE Str(i \div 10) \o << Digits[(i % 10) + 1] >>

Decimal(n, d) == [ num |-> n, den |-> d ]

\* the results of create_initial_state: 0.0, the empty string, the empty
\* list and the empty string
TextStart ==
    /\ novelty_score = Decimal(0, 1)
    /\ final_digest = << >>
    /\ tweet_thread = << >>
    /\ blog_post = << >>
    /\ parsed = 0

\* no reply has come
TextQuiet ==
    /\ content = << >>
    /\ serious_summary = << >>
    /\ TextStart

(***************************************************************************)
(* node_5_novelty: re.search for the label Overall Novelty Score: followed *)
(* by whitespace and a decimal, float() of that decimal, else the count of *)
(* keywords in the summary.                                                *)
(***************************************************************************)
\* the length of the longest run of tokens of set that begins at index i
Run(text, i, set) ==
    CHOOSE n \in 0..(Len(text) + 1 - i) :
        /\ \A k \in i..(i + n - 1) : text[k] \in set
        /\ i + n <= Len(text) => text[i + n] \notin set

\* the number that a sequence of digits spells
RECURSIVE Number(_)
Number(digits) ==
    IF digits = << >> THEN 0
    ELSE 10 * Number(SubSeq(digits, 1, Len(digits) - 1))
             + DigitValue(digits[Len(digits)])

RECURSIVE Power10(_)
Power10(n) == IF n = 0 THEN 1 ELSE 10 * Power10(n - 1)

\* an attempt of the pattern at a label at index m: \s* takes the
\* whitespace, \d+ the digits, \.? a point if one follows and \d* the
\* digits after it
ScoreMatch(text, m) ==
    LET a == m + 1 + Run(text, m + 1, Whitespace)
        n == Run(text, a, DigitSet)
        point == a + n <= Len(text) /\ text[a + n] = "."
        f == IF point THEN Run(text, a + n + 1, DigitSet) ELSE 0
    IN  [ matched |-> n > 0,
          whole |-> SubSeq(text, a, a + n - 1),
          fraction |-> SubSeq(text, a + n + 1, a + n + f) ]

\* the indexes of the labels after which the pattern matches
ScoreMatches(text) ==
    { m \in DOMAIN text : text[m] = ScoreLabel /\ ScoreMatch(text, m).matched }

\* float(match.group(1)) of the leftmost match
ParsedScore(text) ==
    LET m == CHOOSE i \in ScoreMatches(text) : \A k \in ScoreMatches(text) : i <= k
        g == ScoreMatch(text, m)
    IN  Decimal(Number(g.whole \o g.fraction), Power10(Len(g.fraction)))

novelty_keywords ==
    { "novel", "new", "first", "breakthrough", "unprecedented", "innovative" }

\* the words of the summaries and what str.lower() makes of them
Lower(word) ==
    IF word = "Novel" THEN "novel"
    ELSE IF word = "NEW" THEN "new"
    ELSE word

\* keyword in word, for the words of the summaries
InWord(keyword, word) ==
    \/ keyword = word
    \/ keyword = "new" /\ word = "renewed"

\* sum(1 for word in novelty_keywords if word in summary.lower())
KeywordCount(summary) ==
    Cardinality({ keyword \in novelty_keywords :
                    \E i \in DOMAIN summary : InWord(keyword, Lower(summary[i])) })

\* min(score, 1.0)
MinOne(score) == IF score.num > score.den THEN Decimal(1, 1) ELSE score

\* what node_5_novelty writes to state["novelty_score"].  (The default 0.5
\* of the bare except is written only if float() or lower() raises, which
\* they do not on a match of the pattern and on a str.)
NoveltyScore(text, summary) ==
    IF ScoreMatches(text) # {}
    THEN ParsedScore(text)
    ELSE MinOne(Decimal(KeywordCount(summary), 10))

\* the replies to the novelty prompt explored
NoveltyAlphabet == { ScoreLabel, " ", "0", "1", "7", ".", "-", "x" }

NoveltyTexts ==
    UNION { [ 1..n -> NoveltyAlphabet ] : n \in 0..MaxLen }

Summaries ==
    { << >>,
      << "the", " ", "renewed", " ", "method" >>,
      << "Novel", " ", "NEW", " ", "first" >>,
      << "novel", " ", "new", " ", "first", " ", "breakthrough", " ",
         "unprecedented", " ", "innovative" >> }

\* node 4 has written the summary and the reply of node 5 has come
NoveltyInit ==
    /\ content \in NoveltyTexts
    /\ serious_summary \in Summaries
    /\ TextStart

\* node_5_novelty from the reply to its return
NoveltyStage ==
    /\ parsed = 0
    /\ novelty_score' = NoveltyScore(content, serious_summary)
    /\ parsed' = 5
    /\ UNCHANGED << jobVars, rlVars, content, serious_summary, final_digest,
                    tweet_thread, blog_post >>

(***************************************************************************)
(* node_7_output: the digest, the tweets and the blog post cut out of the  *)
(* reply to the synthesis prompt.                                          *)
(***************************************************************************)
\* 1/ and the thread mark
FirstTweet == << "1", "/", ThreadMark >>

TwitterHeader == << "2", ".", " ", TwitterThread >>

FriendHeaderNumbered == << "1", ".", " ", FriendsTake >>

FriendHeader == << FriendsTake >>

BlogHeaderNumbered == << "3", ".", " ", BlogPostStructure >>

BlogHeader == << BlogPostStructure >>

\* line.strip().startswith(('1/', '2/', '3/'))
StartsTweet(line) ==
    \E i \in 1..3 : StartsWith(Strip(line), Str(i) \o << "/" >>)

\* line.strip().startswith(('1/', '2/', '3/', '#', '##'))
StartsSection(line) == StartsTweet(line) \/ StartsWith(Strip(line), << "#" >>)

\* the loop over the lines that gathers conversation_lines
RECURSIVE ConversationLines(_, _)
ConversationLines(lines, gathered) ==
    IF lines = << >> THEN gathered
    ELSE LET line == Head(lines)
         IN  IF \/ Contains(line, << Professor >>)
                \/ Contains(line, << Friend >>)
                \/ StartsWith(Strip(line), << "\"" >>)
                \/ gathered # << >> /\ ~StartsSection(line)
             THEN ConversationLines(Tail(lines), Append(gathered, line))
             ELSE IF /\ gathered # << >>
                     /\ \/ StartsTweet(line)
                        \/ Contains(line, << TwitterThread >>)
                        \/ Contains(line, << BlogPostStructure >>)
             THEN gathered
             ELSE ConversationLines(Tail(lines), gathered)

\* friend_conversation before the clean-up
FriendConversation(text) ==
    IF Contains(text, FirstTweet)
    THEN Strip(Before(text, Find(text, FirstTweet)))
    ELSE IF Contains(text, TwitterHeader)
    THEN Strip(Before(text, Find(text, TwitterHeader)))
    ELSE Strip(Join(ConversationLines(Split(text), << >>)))

\* state["final_digest"]
FinalDigest(text) ==
    LET cleaned == Strip(Remove(Remove(FriendConversation(text),
                                       FriendHeaderNumbered), FriendHeader))
    IN  IF cleaned # << >> THEN cleaned ELSE text

\* range(1, 11)
OrdinalsToTen == 1..10

\* range(1, 10)
Ordinals == 1..9

\* state["tweet_thread"]
TweetThread(text) ==
    LET tweets == SelectSeq(Split(text),
                      LAMBDA line :
                          /\ Strip(line) # << >>
                          /\ \E i \in Ordinals :
                                 StartsWith(Strip(line),
                                            Str(i) \o << "/", ThreadMark >>))
    IN  [ i \in DOMAIN tweets |-> Strip(tweets[i]) ]

\* state["blog_post"]
BlogPost(text) ==
    IF Contains(text, BlogHeaderNumbered)
    THEN Strip(Remove(From(text, Find(text, BlogHeaderNumbered)),
                      BlogHeaderNumbered \o << ":" >>))
    ELSE IF Contains(text, BlogHeader)
    THEN Strip(Remove(From(text, Find(text, BlogHeader)),
                      BlogHeader \o << ":" >>))
    ELSE << >>

\* the lines the replies to the synthesis prompt are made of
LineKinds ==
    { << >>,
      << "Chat" >>,
      << "Body", " " >>,
      << "#", " ", "Title" >>,
      << "1", "/", ThreadMark, " ", "Hook" >>,
      << " ", "2", "/", ThreadMark, " ", "Point" >>,
      << "1", "0", "/", ThreadMark, " ", "Ten" >>,
      << "Chat", " ", "1", "/", ThreadMark, " ", "Hook" >>,
      << Professor, " ", "Chat" >>,
      << "2", ".", " ", TwitterThread >>,
      << "1", ".", " ", FriendsTake >>,
      << BlogPostStructure >>,
      << BlogPostStructure, ":", " ", "Body" >>,
      << "3", ".", " ", BlogPostStructure, ":" >> }

\* the example reply: a digest, two tweets, the header on a line of its
\* own, a title and a body
ExampleReply ==
    Join(<< << "Chat" >>,
            << "1", "/", ThreadMark, " ", "Hook" >>,
            << "2", "/", ThreadMark, " ", "Point" >>,
            << BlogPostStructure >>,
            << "#", " ", "Title" >>,
            << "Body" >> >>)

OutputTexts ==
    { Join(lines) : lines \in UNION { [ 1..n -> LineKinds ] : n \in 0..MaxLines } }
        \cup { ExampleReply }

\* the reply of node 7 has come
OutputInit ==
    /\ content \in OutputTexts
    /\ serious_summary = << >>
    /\ TextStart

\* node_7_output from the reply to its return
OutputStage ==
    /\ parsed = 0
    /\ final_digest' = FinalDigest(content)
    /\ tweet_thread' = TweetThread(content)
    /\ blog_post' = BlogPost(content)
    /\ parsed' = 7
    /\ UNCHANGED << jobVars, rlVars, content, serious_summary, novelty_score >>

vars == << jobVars, rlVars, textVars >>

(***************************************************************************)
(* Specifications.                                                         *)
(***************************************************************************)
\* the rate limiter before its first request
RLQuiet ==
    /\ settings = [ requests |-> 3, window |-> 10 ]
    /\ clients = {}
    /\ budget = 0
    /\ current_time = 0
    /\ zset = [ ip \in Clients |-> {} ]
    /\ ttl = [ ip \in Clients |-> NoTime ]
    /\ redis_client = FALSE
    /\ inflight = [ n \in Slots |-> Idle ]
    /\ checks = << >>

Init == JobInit /\ RLQuiet /\ TextQuiet

Next == JobNext

Spec == Init /\ [][Next]_vars

\* the event loop runs every task that is ready, and every external call
\* a node awaits returns or raises
Fairness ==
    \A j \in JobIds :
        /\ WF_vars(Schedule(j))
        /\ WF_vars(StageStart(j))
        /\ WF_vars(StageResume(j))
        /\ WF_vars(StageFinish(j))
        /\ WF_vars(WriteBack(j))
        /\ WF_vars(RecordFailure(j))

InitLive == JobInit /\ RLQuiet /\ TextQuiet

SpecLive == InitLive /\ [][LiveNext]_vars /\ Fairness

InitRL == JobInit /\ RLInit /\ TextQuiet

\* the environment of SpecStore injects no failure
InitStore == JobStart(JobIds, MaxFaults) /\ RLQuiet /\ TextQuiet

SpecStore == InitStore /\ [][StoreNext]_vars

\* cancel_job called on its own: cancel_job decides on the status of the
\* record alone, so the store holds a record of every job id with any
\* value of ProcessingStatus as its status, and no run is going on
InitCancel ==
    /\ ids = {}
    /\ byRef = FALSE
    /\ jobs \in { [ j \in JobIds |-> [ create_initial_state(0) EXCEPT !.status = status[j] ] ] :
                    status \in [ JobIds -> ProcessingStatus ] }
    /\ order = [ j \in JobIds |-> j ]
    /\ created = [ j \in JobIds |-> j ]
    /\ listed = NoRequest
    /\ run = << >>
    /\ pc = [ j \in JobIds |-> "stored" ]
    /\ node = [ j \in JobIds |-> 0 ]
    /\ processing_steps = [ j \in JobIds |-> << >> ]
    /\ clock = 0
    /\ faults = 0
    /\ cancelled = {}
    /\ last = Call("start", 0, TRUE)
    /\ RLQuiet
    /\ TextQuiet

SpecCancel == InitCancel /\ [][CancelNext]_vars

InitList == (\E n \in StoreSizes : StoreOf(n)) /\ RLQuiet /\ TextQuiet

SpecList == InitList /\ [][ListNext]_vars

SpecRL == InitRL /\ [][RLNext]_vars

InitRLWorkers == JobInit /\ RLStart(WorkerDeployments) /\ TextQuiet

SpecRLWorkers == InitRLWorkers /\ [][RLNextWorkers]_vars

\* the service with no job and no request, for the specifications of the
\* text parsers
Idling == JobStart({}, 0) /\ RLQuiet

InitNovelty == Idling /\ NoveltyInit

SpecNovelty == InitNovelty /\ [][NoveltyStage]_vars

InitOutput == Idling /\ OutputInit

SpecOutput == InitOutput /\ [][OutputStage]_vars

(***************************************************************************)
(* Properties of the job registry and the pipeline, checked under Spec     *)
(* (C23 under SpecLive).                                                   *)
(***************************************************************************)
Terminal == { COMPLETED, FAILED }

Steps(j) == processing_steps[j]

\* C1: fail-fast.  When a stage of a run fails no later stage of that run
\* executes: a Failed step is the last step of its job's step list (so
\* Ingestion Completed, Parsing Failed leaves exactly two steps).
C1_FailFast ==
    \A j \in DOMAIN jobs :
        \A i \in 1..Len(Steps(j)) :
            Steps(j)[i].status = FAILED => i = Len(Steps(j))

\* C2: one failure is terminal for the whole job.  A job whose status is
\* Completed has every step of its step list Completed.
C2_CompletedMeansAllCompleted ==
    \A j \in DOMAIN jobs :
        jobs[j].status = COMPLETED =>
            \A i \in 1..Len(Steps(j)) : Steps(j)[i].status = COMPLETED

\* C3: terminal statuses are absorbing.  No step of the system changes the
\* status of a job that is Completed or Failed.
C3_TerminalAbsorbing ==
    [][ \A j \in DOMAIN jobs :
            jobs[j].status \in Terminal => jobs'[j].status = jobs[j].status ]_vars

\* C4: cancellation is sticky.  Once cancel_job has returned success for a
\* job, every status query for it reports Failed with the cancellation
\* message, whatever its pipeline run does afterwards.
C4_CancelSticky ==
    \A j \in cancelled :
        /\ get_job_status(j).status = FAILED
        /\ get_job_status(j).error_message = CancelMsg

C6_CancelTerminalNoOp ==
    [][ ( /\ last'.op = "cancel_job"
          /\ last'.job \in DOMAIN jobs
          /\ jobs[last'.job].status \in Terminal )
        => ( /\ ~last'.ok
             /\ jobs' = jobs
             /\ processing_steps' = processing_steps
             /\ cancelled' = cancelled ) ]_vars

\* a cancel has just been refused on a job that ran to Completed
C6_Witness ==
    /\ last.op = "cancel_job"
    /\ ~last.ok
    /\ last.job \in DOMAIN jobs
    /\ jobs[last.job].status = COMPLETED
    /\ pc[last.job] = "done"

\* C12: stages run in the fixed order.  The stage names of a job's step
\* list are the first names of ingestion, parsing, rag_processing,
\* summarizer_context, novelty_analysis, humanizing, output_generation:
\* none skipped, repeated or retried.
C12_StageOrder ==
    \A j \in DOMAIN jobs :
        \A i \in DOMAIN Steps(j) :
            i <= NumNodes /\ Steps(j)[i].step_name = StepNames[i]

\* a run has gone through all its stages
C12_Witness ==
    \E j \in DOMAIN jobs : pc[j] = "done" /\ Len(Steps(j)) = NumNodes

\* the run of job j has ended, every external call of it returned normally,
\* and no cancel of it succeeded
CleanRun(j) == pc[j] = "done" /\ faults = 0 /\ j \notin cancelled

\* C13: a successful run ends Completed.  After a run in which every
\* stage returned normally and no cancel was issued, the job is Completed
\* and has seven steps, all Completed.
C13_SuccessfulRun ==
    \A j \in DOMAIN jobs :
        CleanRun(j) =>
            /\ jobs[j].status = COMPLETED
            /\ Len(Steps(j)) = NumNodes
            /\ \A i \in DOMAIN Steps(j) : Steps(j)[i].status = COMPLETED

\* such a run has ended and its last step is stamped
C13_Witness ==
    \E j \in DOMAIN jobs :
        /\ CleanRun(j)
        /\ Len(Steps(j)) = NumNodes
        /\ Steps(j)[NumNodes].completed_at # NoTime

\* the last step of job j is Failed
LastStepFailed(j) ==
    Len(Steps(j)) > 0 /\ Steps(j)[Len(Steps(j))].status = FAILED

\* C14: a job is Failed if and only if its step list is not empty and its
\* last step is Failed, also after a cancel and after a pipeline-level
\* exception.
C14_FailedIffLastStepFailed ==
    \A j \in DOMAIN jobs : jobs[j].status = FAILED <=> LastStepFailed(j)

\* the steps of a list that are in progress: neither Completed nor Failed
InProgress(steps) == { i \in DOMAIN steps : steps[i].status \notin Terminal }

\* C15: at most one step of a job is in progress; it is the last of the
\* list and its stage name is the job's current stage; and a step that is
\* Completed or Failed keeps its status.
C15_CurrentStep ==
    [][ \A j \in DOMAIN jobs' :
            LET snapshot == get_job_status(j)'
                steps == snapshot.processing_steps
            IN  /\ Cardinality(InProgress(steps)) <= 1
                /\ \A i \in InProgress(steps) :
                       /\ i = Len(steps)
                       /\ steps[i].step_name = snapshot.current_step
                /\ \A i \in DOMAIN Steps(j) :
                       Steps(j)[i].status \in Terminal =>
                           /\ i \in DOMAIN steps
                           /\ steps[i].status = Steps(j)[i].status ]_vars

\* a step as the list keeps it: which stage, started when
StepKey(step) == << step.step_name, step.started_at >>

\* C16: the step list is append-only.  Whatever happens (a stage starts or
\* finishes, the result is written back, a cancel, a query), the list of
\* before is a prefix of the list of after: no step is removed, replaced
\* or moved, and the list does not get shorter.
C16_AppendOnly ==
    [][ \A j \in JobIds :
            /\ Len(Steps(j)') >= Len(Steps(j))
            /\ \A i \in DOMAIN Steps(j) :
                   StepKey(Steps(j)'[i]) = StepKey(Steps(j)[i]) ]_vars

\* the result of a run of seven steps has just been written back
C16_Witness ==
    /\ last.op = "write_back"
    /\ Len(Steps(last.job)) = NumNodes

\* a stage of the run of job j failed, or the invocation of its pipeline
\* raised
RunFailed(j) ==
    \/ \E i \in DOMAIN Steps(j) : Steps(j)[i].status = FAILED
    \/ last.op = "except" /\ last.job = j

\* C22: stage errors are absorbed.  When process_paper_async has returned
\* from a run in which a stage failed or the pipeline invocation raised,
\* the job is Failed and has an error message.
C22_ErrorsAbsorbed ==
    \A j \in DOMAIN jobs :
        (pc[j] = "done" /\ RunFailed(j)) =>
            /\ get_job_status(j).status = FAILED
            /\ get_job_status(j).error_message # None

\* C24: a Completed job has no error message; a Failed job has one, and a
\* status query for it carries no result bundle.
C24_ErrorMessageByStatus ==
    \A j \in DOMAIN jobs :
        LET snapshot == get_job_status(j)
        IN  /\ snapshot.status = COMPLETED => snapshot.error_message = None
            /\ snapshot.status = FAILED =>
                   /\ snapshot.error_message # None
                   /\ ~snapshot.has_result

\* C23: every scheduled job terminates.  If every external call returns or
\* raises, a job handed to process_paper_async comes to the end of
\* process_paper_async with status Completed or Failed, and from then on a
\* status query finds it Completed or Failed.
C23_EveryJobTerminates ==
    /\ \A j \in JobIds :
           pc[j] = "new" ~> (pc[j] = "done" /\ get_job_status(j).status \in Terminal)
    /\ [](\A j \in JobIds :
             pc[j] = "done" => get_job_status(j).status \in Terminal)

\* a run has ended by the write-back and another by the except branch
C23_Witness ==
    \E j \in DOMAIN jobs :
        /\ pc[j] = "done"
        /\ last.job = j
        /\ last.op \in {"write_back", "except"}
        /\ jobs[j].status \in Terminal

\* the status value named for each stage, in the order of the stages
StageStatus ==
    << INGESTING, PARSING, RAG_PROCESSING, SUMMARIZING, NOVELTY_ANALYSIS,
       HUMANIZING, SYNTHESIZING >>

\* the progress markers in their order
StatusOrder == << QUEUED >> \o StageStatus \o << COMPLETED >>

\* the status that follows status in that order
Successor(status) ==
    LET i == CHOOSE k \in DOMAIN StatusOrder : StatusOrder[k] = status
    IN  StatusOrder[Min(i + 1, Len(StatusOrder))]

\* C30: on a run in which no stage fails and no cancel occurs, the status
\* of the job goes through Queued, Ingesting, Parsing, rag_processing,
\* Summarizing, novelty_analysis, Humanizing, Synthesizing, Completed, one
\* after the other, and while a stage executes the status is the value
\* named for that stage.
C30_StatusFollowsStages ==
    [][ \A j \in DOMAIN jobs :
            (faults' = 0 /\ j \notin cancelled' /\ pc[j] # "absent") =>
                /\ pc'[j] = "running" => State(j)'.status = StageStatus[node'[j]]
                /\ jobs'[j].status \in { jobs[j].status, Successor(jobs[j].status) } ]_vars

(***************************************************************************)
(* Properties of the registry with several jobs, checked under SpecStore   *)
(* (C18 under SpecLive, C20 and C21 under SpecList).                        *)
(***************************************************************************)
\* C17: create_job adds exactly one entry, under an id that was not in the
\* store, with status Queued, an empty step list, no current stage and no
\* error message; every entry of before is unchanged; the snapshot it
\* returns carries that id and status Queued.  (create_job is called by
\* POST /process-paper, which then answers with the snapshot, and by
\* POST /papers/process and POST /papers/batch, which then answer 500.)
C17_CreateAddsOne ==
    [][ last'.op \in { "create_job", "process_paper" } =>
            LET j == last'.job
            IN  /\ last'.ok = (last'.op = "create_job")
                /\ j \notin DOMAIN jobs
                /\ DOMAIN jobs' = DOMAIN jobs \cup {j}
                /\ jobs'[j].status = QUEUED
                /\ processing_steps'[j] = << >>
                /\ jobs'[j].current_step = None
                /\ jobs'[j].error_message = None
                /\ \A k \in DOMAIN jobs :
                       jobs'[k] = jobs[k] /\ Steps(k)' = Steps(k)
                /\ CreateResponse(j, jobs'[j]).job_id = j
                /\ CreateResponse(j, jobs'[j]).status = QUEUED ]_vars

\* a job has just been created next to one whose run has left steps
C17_Witness ==
    /\ last.op = "create_job"
    /\ \E k \in DOMAIN jobs : k # last.job /\ Len(Steps(k)) > 0

\* C18: get_job_status answers not-found exactly for the ids that are not
\* in the store; for the others the snapshot has the status, step list,
\* current stage and error message of the stored record, and the result
\* bundle exactly when the status is Completed.
C18_StatusSnapshot ==
    /\ last.op = "get_job_status" => (last.ok <=> last.job \in DOMAIN jobs)
    /\ \A j \in JobIds :
        LET snapshot == get_job_status(j)
        IN  /\ snapshot.found <=> j \in DOMAIN jobs
            /\ ~snapshot.found => ~snapshot.has_result
            /\ snapshot.found =>
                   /\ snapshot.status = jobs[j].status
                   /\ snapshot.processing_steps = Steps(j)
                   /\ snapshot.current_step = jobs[j].current_step
                   /\ snapshot.error_message = jobs[j].error_message
                   /\ snapshot.has_result <=> jobs[j].status = COMPLETED

\* a query has just found a job that failed after all its stages had run,
\* while another id is not in the store
C18_Witness ==
    /\ last.op = "get_job_status"
    /\ last.ok
    /\ jobs[last.job].status = FAILED
    /\ Len(Steps(last.job)) = NumNodes
    /\ \E j \in JobIds : ~get_job_status(j).found

\* the items of seq at the count positions that follow the first offset
Positions(seq, offset, count) ==
    [ i \in 1..Max(0, Min(count, Len(seq) - offset)) |-> seq[offset + i] ]

\* the items of seq at the positions lo .. hi that seq has, counted
\* from 0
AtPositions(seq, lo, hi) ==
    LET from == Max(lo, 0)
        to == Min(hi, Len(seq) - 1)
    IN  IF from > to THEN << >> ELSE SubSeq(seq, from + 1, to + 1)

\* C19: without a status filter, GET /jobs returns the jobs at positions
\* offset .. offset+limit-1 of the creation order, whatever was cancelled
\* in between (stated for the requests that count from the first job on,
\* offset >= 0, with a limit that the documented maximum does not clamp);
\* limit 50 and offset 0 on a store of 3 jobs return the 3 jobs in
\* creation order.
C19_ListInCreationOrder ==
    (/\ listed # NoRequest
     /\ listed.status = None
     /\ listed.offset >= 0
     /\ listed.limit <= MaxPageSize) =>
        /\ listed.ids = AtPositions(created, listed.offset,
                                     listed.offset + listed.limit - 1)
        /\ (Len(created) = 3 /\ listed.limit = 50 /\ listed.offset = 0) =>
               listed.ids = created

\* C20: the response of GET /jobs is bounded.  Whatever the store and
\* the integers limit and offset, it has at most 100 entries; a limit
\* above 100 gives what limit 100 gives; a limit below 100 gives at most
\* limit entries.
C20_PageBounded ==
    /\ Len(listed.ids) <= MaxPageSize
    /\ listed.limit > MaxPageSize =>
           listed.ids = list_jobs_endpoint(listed.status, MaxPageSize, listed.offset)
    /\ listed.limit < MaxPageSize => Len(listed.ids) <= Max(listed.limit, 0)

\* the jobs that have the status now, in creation order
WithStatus(status) == SelectSeq(created, LAMBDA j : jobs[j].status = status)

\* C21: with a status filter, GET /jobs pages over the filtered jobs: it
\* returns the jobs that have the status, in creation order, less the
\* first offset of them and cut to limit of them; a job that has the
\* status is left out only when it falls outside that page.
C21_FilteredPage ==
    \A status \in Filters \ {None}, limit \in Limits, offset \in Offsets :
        (limit >= 0 /\ offset >= 0) =>
            list_jobs_endpoint(status, limit, offset)
                = Positions(WithStatus(status), offset, Min(limit, MaxPageSize))

(***************************************************************************)
(* Properties of the rate limiter, checked under SpecRL.                   *)
(***************************************************************************)
\* the timestamps of a set that lie inside the window that ends at time t
InWindow(set, t) == { x \in set : x > t - settings.window }

\* the calls the store decided: the server answered
Decided == { i \in DOMAIN checks : checks[i].up }

\* C7: sliding-window bound.  At every instant and for every client, the
\* admitted checks of that client stamped inside the last window are at
\* most the quota.
C7_SlidingWindowBound ==
    \A ip \in Clients :
        Cardinality({ i \in Decided :
                        /\ checks[i].ip = ip
                        /\ checks[i].outcome = "admitted"
                        /\ checks[i].time > current_time - settings.window })
            <= settings.requests

ScenarioTimes == << 0, 1, 2, 3, 11 >>

ScenarioOutcomes == << "admitted", "admitted", "admitted", "rejected", "admitted" >>

\* the calls so far are the first calls of the scenario: one client, quota
\* 3, window 10, the server answering
InScenario ==
    /\ settings = [ requests |-> 3, window |-> 10 ]
    /\ Len(checks) <= Len(ScenarioTimes)
    /\ \A i \in DOMAIN checks :
        /\ checks[i].ip = 1
        /\ checks[i].up
        /\ checks[i].time = ScenarioTimes[i]

\* C8: expiry.  With quota 3 and window 10, checks at 0, 1, 2 are
\* admitted, one at 3 is rejected and one at 11 is admitted; and every
\* check that finds fewer than quota entries left in the window after the
\* trim is admitted.
C8_Expiry ==
    /\ InScenario =>
           \A i \in DOMAIN checks : checks[i].outcome = ScenarioOutcomes[i]
    /\ \A i \in DOMAIN checks :
           Cardinality(InWindow(checks[i].before, checks[i].time)) < settings.requests
               => checks[i].outcome = "admitted"

\* the scenario has been played to its end
C8_Witness == InScenario /\ Len(checks) = Len(ScenarioTimes)

\* C9: a rejected check adds no entry.  After a rejection the client's
\* stored timestamps are those of before, less the expired ones.
C9_RejectedAddsNoEntry ==
    \A i \in DOMAIN checks :
        checks[i].outcome = "rejected" =>
            checks[i].after = InWindow(checks[i].before, checks[i].time)

\* C10: fail-open.  A check made while the store does not answer is
\* admitted, and a check that the store finds at or over quota is rejected
\* to the caller.
C10_FailOpen ==
    \A i \in DOMAIN checks :
        /\ ~checks[i].up => checks[i].outcome = "admitted"
        /\ ( /\ checks[i].up
             /\ Cardinality(InWindow(checks[i].before, checks[i].time))
                    >= settings.requests )
           => checks[i].outcome = "rejected"

\* one check failed open and another was rejected over quota
C10_Witness ==
    /\ \E i \in DOMAIN checks : ~checks[i].up /\ checks[i].outcome = "admitted"
    /\ \E i \in DOMAIN checks : checks[i].up /\ checks[i].outcome = "rejected"

(***************************************************************************)
(* Properties of the rate limiter with several workers, checked under      *)
(* SpecRLWorkers.                                                          *)
(***************************************************************************)
\* calls i and k, one executed right after the other, were inside
\* rate_limit_check at the same time for the same client, the server
\* answering both
Overlap(i, k) ==
    /\ k = i + 1
    /\ checks[k].arrived < i
    /\ checks[i].ip = checks[k].ip
    /\ checks[i].up /\ checks[k].up

\* one entry short of the quota in the window of a request that read the
\* clock at second t
OneSlotLeft(set, t) == Cardinality(InWindow(set, t)) = settings.requests - 1

\* C11: atomicity.  When two checks of one client overlap while exactly
\* one slot is left in the window, at most one of them is admitted,
\* whatever their two timestamps are, equal ones included.
C11_OneSlotOneAdmission ==
    \A i, k \in DOMAIN checks :
        ( /\ Overlap(i, k)
          /\ OneSlotLeft(checks[i].before, checks[i].time)
          /\ OneSlotLeft(checks[i].before, checks[k].time) )
        => ~( checks[i].outcome = "admitted" /\ checks[k].outcome = "admitted" )

(***************************************************************************)
(* Properties of the text parsers, checked under SpecNovelty (C25) and     *)
(* SpecOutput (C26 to C29).                                                *)
(***************************************************************************)
\* C25: the novelty score lies in the closed range 0.0 to 1.0 in every
\* state, whatever the reply of the language model is: a score read from
\* the reply, the keyword count, or the initial value.
C25_NoveltyScoreInRange ==
    /\ 0 <= novelty_score.num
    /\ novelty_score.num <= novelty_score.den

\* the text that precedes the first 1/ with the thread mark
BeforeFirstTweet(text) == Before(text, Find(text, FirstTweet))

\* a line whose trimmed text begins with an ordinal 1 to 9, the slash and
\* the thread mark
IsShortPost(line) ==
    LET t == Strip(line)
    IN  /\ Len(t) >= 3
        /\ t[1] \in DigitSet \ {"0"}
        /\ t[2] = "/"
        /\ t[3] = ThreadMark

ShortPostLines(text) == SelectSeq(Split(text), IsShortPost)

\* C26: for a reply that contains the marker of the first short post, the
\* digest is the text before the first occurrence of that marker, trimmed,
\* and no line of it is a short post; for the example reply it is Chat.
C26_DigestBeforeFirstTweet ==
    (parsed = 7 /\ Contains(content, FirstTweet)) =>
        /\ final_digest = Strip(BeforeFirstTweet(content))
        /\ ShortPostLines(final_digest) = << >>
        /\ content = ExampleReply => final_digest = << "Chat" >>

\* C27: the short posts are the lines of the reply whose trimmed text
\* begins with an ordinal 1 to 9, the slash and the thread mark, each
\* trimmed, in the order of the lines; no other line is among them, a line
\* with an ordinal above 9 included.
C27_ShortPosts ==
    parsed = 7 =>
        /\ Len(tweet_thread) = Len(ShortPostLines(content))
        /\ \A i \in DOMAIN tweet_thread :
               tweet_thread[i] = Strip(ShortPostLines(content)[i])
        /\ \A i \in DOMAIN tweet_thread :
               ~(tweet_thread[i][1] \in DigitSet /\ tweet_thread[i][2] \in DigitSet)
        /\ content = ExampleReply =>
               tweet_thread = << << "1", "/", ThreadMark, " ", "Hook" >>,
                                 << "2", "/", ThreadMark, " ", "Point" >> >>

\* a reply with two short posts, one of them indented, and a line of
\* ordinal 10 has been parsed
C27_Witness ==
    /\ parsed = 7
    /\ Len(tweet_thread) = 2
    /\ Contains(content, << "\n", " ", "2", "/", ThreadMark >>)
    /\ Contains(content, << "1", "0", "/", ThreadMark >>)

\* the text that follows the first header token, less a colon right after it
AfterBlogHeader(text) ==
    LET rest == From(text, Find(text, BlogHeader) + Len(BlogHeader))
    IN  IF StartsWith(rest, << ":" >>) THEN Tail(rest) ELSE rest

\* C28: for a reply that contains the header token of the long-form post,
\* the post is the text after the first occurrence of the token, trimmed,
\* the token itself removed, whether a colon or a newline follows it; for
\* the example reply it is the title line and the body line.
C28_LongPostAfterHeader ==
    (parsed = 7 /\ Contains(content, BlogHeader)) =>
        /\ blog_post = Strip(AfterBlogHeader(content))
        /\ content = ExampleReply =>
               blog_post = << "#", " ", "Title", "\n", "Body" >>

\* the reply has no ordinal 1 to 9 followed by the slash and the thread mark
NoShortPostMarker(text) ==
    \A i \in 1..9 : ~Contains(text, Str(i) \o << "/", ThreadMark >>)

\* C29: for a reply with no short-post marker and no header token of the
\* long-form post, the digest is the whole reply, the short posts are the
\* empty sequence and the long-form post is the empty string.
C29_DegradedPath ==
    (parsed = 7 /\ NoShortPostMarker(content) /\ ~Contains(content, BlogHeader)) =>
        /\ final_digest = content
        /\ tweet_thread = << >>
        /\ blog_post = << >>

(***************************************************************************)
(* Properties of failing stages, of cancel and of the last-update time,    *)
(* checked under Spec.                                                     *)
(***************************************************************************)
\* the positions of the Failed steps of a step list
FailedSteps(steps) == { i \in DOMAIN steps : steps[i].status = FAILED }

\* the most recent of them
LastFailed(steps) ==
    CHOOSE i \in FailedSteps(steps) : \A k \in FailedSteps(steps) : k <= i

\* C31: when a stage fails, in that one transition the failing step gets
\* status Failed and a completion time, the error message of the job and
\* the error text of the step are the same message of that stage, and the
\* status of the job becomes Failed; after several stage failures in a run
\* the error message of the job is the error text of the most recently
\* failed step.
C31_StageFailure ==
    [][ \A j \in DOMAIN jobs' :
            /\ (last'.op = "node" /\ last'.job = j /\ ~last'.ok) =>
                   LET step == Steps(j)'[Len(Steps(j)')]
                   IN  /\ Len(Steps(j)') = node[j]
                       /\ step.step_name = StepNames[node[j]]
                       /\ step.status = FAILED
                       /\ step.completed_at = clock'
                       /\ step.error_message = ErrorMsgs[node[j]]
                       /\ get_job_status(j)'.error_message = step.error_message
                       /\ get_job_status(j)'.status = FAILED
            /\ FailedSteps(Steps(j)') # {} =>
                   get_job_status(j)'.error_message =
                       Steps(j)'[LastFailed(Steps(j)')].error_message ]_vars

\* C32: for a run that was not cancelled and whose pipeline invocation did
\* not raise, the final status is decided by the output-generation stage
\* alone: Completed exactly when that stage returned normally, Failed
\* exactly when it failed, whatever the six earlier stages did.
C32_FinalStatusByOutput ==
    \A j \in DOMAIN jobs :
        (pc[j] = "done" /\ node[j] > NumNodes /\ j \notin cancelled) =>
            /\ Len(Steps(j)) = NumNodes
            /\ Steps(j)[NumNodes].step_name = StepNames[NumNodes]
            /\ Steps(j)[NumNodes].status \in Terminal
            /\ jobs[j].status = Steps(j)[NumNodes].status

\* a run has ended Completed although one of the earlier stages failed
C32_Witness ==
    \E j \in DOMAIN jobs :
        /\ pc[j] = "done"
        /\ node[j] > NumNodes
        /\ j \notin cancelled
        /\ jobs[j].status = COMPLETED
        /\ \E i \in 1..(NumNodes - 1) : Steps(j)[i].status = FAILED

\* C33: if ingestion fails before it has a local document path, parsing
\* and indexing each record a Failed step (their input is missing) without
\* any failure of their own external calls; summarizing, novelty analysis,
\* humanizing and output generation check no input and record a Failed
\* step exactly when their own external call fails.
C33_FailureCascade ==
    [][ \A j \in DOMAIN jobs :
            (last'.op = "node" /\ last'.job = j) =>
                LET k == node[j]
                    step == Steps(j)'[k]
                IN  /\ ( /\ k \in {2, 3}
                          /\ Steps(j)'[1].status = FAILED
                          /\ ~State(j)'.pdf_path ) =>
                           /\ step.status = FAILED
                           /\ faults' = faults
                    /\ k >= 4 =>
                           /\ step.status = FAILED => faults' = faults + 1
                           /\ faults' = faults => step.status = COMPLETED ]_vars

\* ingestion, parsing and indexing have failed on one failure of an
\* external call, and summarizing has then completed
C33_Witness ==
    \E j \in DOMAIN jobs :
        /\ Len(Steps(j)) >= 4
        /\ \A i \in 1..3 : Steps(j)[i].status = FAILED
        /\ Steps(j)[4].status = COMPLETED
        /\ faults = 1

\* C35: cancel_job returns success at most once over the lifetime of a
\* job, also when the pipeline run of the job goes on between two calls: a
\* call for a job that cancel_job has cancelled before returns failure and
\* changes nothing.
C35_CancelAtMostOnce ==
    [][ (last'.op = "cancel_job" /\ last'.job \in cancelled) =>
            (~last'.ok /\ jobs' = jobs /\ processing_steps' = processing_steps) ]_vars

\* a job was cancelled, its run went on to the write-back of a Completed
\* result, and a cancel call after that was refused
C35_Witness ==
    /\ last.op = "cancel_job"
    /\ ~last.ok
    /\ last.job \in cancelled
    /\ pc[last.job] = "done"
    /\ node[last.job] > NumNodes
    /\ jobs[last.job].status = COMPLETED

\* C39: the last-update time follows every change of status, step list or
\* error message, so the last-update time of a job is never earlier than
\* the start time or the completion time of any of its steps.
C39_UpdatedAtTracksSteps ==
    \A j \in DOMAIN jobs :
        \A i \in 1..Len(Steps(j)) :
            /\ get_job_status(j).updated_at >= Steps(j)[i].started_at
            /\ get_job_status(j).updated_at >= Steps(j)[i].completed_at

(***************************************************************************)
(* The boundary of the trim of the rate limiter, checked under SpecRL.     *)
(***************************************************************************)
\* C37: the entries a check discards are exactly those older than the time
\* of the check less the window: an entry stamped exactly at that time
\* less the window is kept and still counts against the quota.
C37_TrimBoundary ==
    \A i \in Decided :
        LET now == checks[i].time
            counted == { x \in checks[i].before : x >= now - settings.window }
        IN  /\ checks[i].before \ checks[i].after = checks[i].before \ counted
            /\ checks[i].outcome = "rejected" <=>
                   Cardinality(counted) >= settings.requests

(***************************************************************************)
(* Calls with a job id that is not in the store, and the download of       *)
(* results, checked under SpecLive.                                        *)
(***************************************************************************)
\* C36: operations on an unknown job id fail without side effects.  The
\* status query answers not-found, cancel returns failure, output
\* retrieval returns nothing and the scheduled execution returns at once;
\* none of them creates an entry in the job store or changes one.
C36_UnknownJobId ==
    [][ ( /\ last'.op \in { "get_job_status", "cancel_job", "download_result",
                            "process_paper_async" }
          /\ last'.job \notin DOMAIN jobs )
        => ( /\ ~last'.ok
             /\ get_job_status(last'.job) = NotFound
             /\ ~cancel_job(last'.job)
             /\ \A format \in Formats :
                    /\ get_job_output(last'.job, format) = None
                    /\ download_result(last'.job, format) = HTTP404
             /\ jobs' = jobs
             /\ order' = order
             /\ processing_steps' = processing_steps
             /\ run' = run
             /\ pc' = pc
             /\ cancelled' = cancelled ) ]_vars

\* a cancel for an id that is not in the store has been answered while the
\* job that is in the store is under way
C36_Witness ==
    /\ last.op = "cancel_job"
    /\ last.job \notin DOMAIN jobs
    /\ ~last.ok
    /\ \E j \in DOMAIN jobs : pc[j] = "running" /\ jobs[j].status \in Cancellable

\* C38: output retrieval returns a rendering exactly when the job exists,
\* its status is Completed and the format is one of json, markdown and
\* txt; in every other case it returns nothing.
C38_OutputExactlyWhenCompleted ==
    \A j \in JobIds, format \in Formats :
        (download_result(j, format) # HTTP404) <=>
            ( /\ j \in DOMAIN jobs
              /\ jobs[j].status = COMPLETED
              /\ format \in { "json", "markdown", "txt" } )

(***************************************************************************)
(* Jobs in flight at the same time, checked under SpecStore.               *)
(***************************************************************************)
\* C34: per-job isolation.  Under every interleaving of the runs of
\* several jobs with create and cancel calls, a stage transition, a
\* write-back or a cancel of one job leaves the record of every other job
\* as it was (status, step list, current stage, error message, results),
\* and with it what a status query returns for that job; create_job leaves
\* every record there is as it was.
C34_JobIsolation ==
    [][ \A j \in JobIds :
            ( /\ last'.job = j
              /\ last'.op \in { "create_job", "process_paper", "ainvoke",
                                "node_start", "node", "write_back",
                                "cancel_job" } )
            => \A k \in DOMAIN jobs \ {j} :
                   /\ k \in DOMAIN jobs'
                   /\ jobs'[k] = jobs[k]
                   /\ Steps(k)' = Steps(k)
                   /\ get_job_status(k)' = get_job_status(k)
                   /\ k \in DOMAIN run => (k \in DOMAIN run' /\ run'[k] = run[k])
                   /\ pc'[k] = pc[k]
                   /\ node'[k] = node[k]
                   /\ (k \in cancelled') = (k \in cancelled) ]_vars

\* the run of one job has been written back while another job, cancelled
\* before, is inside its second or a later stage
C34_Witness ==
    /\ last.op = "write_back"
    /\ \E k \in DOMAIN jobs \ {last.job} :
           /\ pc[k] = "running"
           /\ k \in cancelled
           /\ Len(Steps(k)) >= 2

====
